---- MODULE Spec2Model ----
(***************************************************************************)
(* velocitree: the generative simulation engine                            *)
(* (velocitree/speciation/generative.py, regression.py, __main__.py).      *)
(*                                                                         *)
(* A run is the instance `self` of RandomTree(ntips, nclades, model, seed):*)
(* a record whose fields are the instance attributes and whose `pc` is the *)
(* position in RandomTree.__init__ / GenerativeBase.__init__.  Every       *)
(* method is an operator from the instance (and, where the method touches  *)
(* it, the process-global numpy generator) to the instance after the call. *)
(*                                                                         *)
(* Numbers.  Floats are fixed point: params and velocities in hundredths,  *)
(* distances in sixtieths of the root height, regression scores in tenths, *)
(* probabilities in percent.  A float that may be non-finite is a pair     *)
(* <<tag, value>> with tag in "fin", "ninf", "pinf", "nan".                *)
(***************************************************************************)
EXTENDS Integers, Sequences, FiniteSets, TLC

VARIABLES
    run,        \* the instance under study (self)
    twin,       \* a second instance built from the same arguments
    np_random,  \* state of the process-global generator (numpy.random)
    np_start    \* np_random as it was when the process started

vars == <<run, twin, np_random, np_start>>

(***************************************************************************)
(* Bounds of the model                                                     *)
(***************************************************************************)
MaxTips == 4        \* trees of 1 .. MaxTips tips
MaxClades == 4      \* nclades in 1 .. MaxClades
MaxSeed == 1        \* seeds 0 .. MaxSeed
MaxCalls == 2       \* sample_observations calls per instance
MaxNp == 1          \* the global generator starts in 0 .. MaxNp
TwinTips == 3       \* trees of 1 .. TwinTips tips when two instances run

(***************************************************************************)
(* Small helpers                                                           *)
(***************************************************************************)
MaxOf(S) == CHOOSE x \in S : \A y \in S : y <= x
MinOf(S) == CHOOSE x \in S : \A y \in S : x <= y
Range(s) == {s[i] : i \in 1 .. Len(s)}

RECURSIVE SeqSum(_)
SeqSum(s) == IF s = <<>> THEN 0 ELSE Head(s) + SeqSum(Tail(s))

RECURSIVE Concat(_)
Concat(ss) == IF ss = <<>> THEN <<>> ELSE Head(ss) \o Concat(Tail(ss))

\* the elements of a finite set of integers as a descending sequence
RECURSIVE Descending(_)
Descending(S) ==
    IF S = {} THEN <<>> ELSE <<MaxOf(S)>> \o Descending(S \ {MaxOf(S)})

(***************************************************************************)
(* Trees as toytree holds them (toytree.rtree.bdtree, a binary tree):      *)
(* tips carry idx 0 .. ntips-1, internal nodes ntips .. nnodes-1, the root *)
(* the highest idx.  Internal idxs descend in level order and tip idxs     *)
(* descend in leaf order, so the first child of a node is the one over the *)
(* highest tips.  A tree is given by its parent map p.                     *)
(***************************************************************************)
RECURSIVE TipsBelow(_, _, _)
TipsBelow(p, nt, n) ==
    IF n < nt THEN {n}
    ELSE UNION {TipsBelow(p, nt, c) : c \in {m \in DOMAIN p : p[m] = n}}

RECURSIVE Depth(_, _)
Depth(p, n) == IF n \in DOMAIN p THEN 1 + Depth(p, p[n]) ELSE 0

ToytreeOrder(p, nt) ==
    LET nn == 2 * nt - 1
        kids(n) == {m \in DOMAIN p : p[m] = n}
        tb(n) == TipsBelow(p, nt, n)
    IN  /\ \A n \in DOMAIN p : p[n] > n
        /\ \A n \in nt .. nn - 1 : Cardinality(kids(n)) = 2
        /\ \A n \in nt .. nn - 1 : tb(n) = MinOf(tb(n)) .. MaxOf(tb(n))
        /\ \A u, v \in nt .. nn - 1 :
              /\ Depth(p, u) < Depth(p, v) => u > v
              /\ (Depth(p, u) = Depth(p, v) /\ MaxOf(tb(u)) > MaxOf(tb(v)))
                    => u > v

\* node n's children, first child first
ChildSeq(p, nt, n) ==
    LET kids == {m \in DOMAIN p : p[m] = n}
        hi == CHOOSE c \in kids :
                \A d \in kids : MaxOf(TipsBelow(p, nt, d)) <= MaxOf(TipsBelow(p, nt, c))
    IN  IF kids = {} THEN <<>> ELSE <<hi>> \o Descending(kids \ {hi})

\* levels above the tips: the node's height on the ultrametric tree
RECURSIVE Height(_, _, _)
Height(p, nt, n) ==
    IF n < nt THEN 0
    ELSE 1 + MaxOf({Height(p, nt, c) : c \in {m \in DOMAIN p : p[m] = n}})

\* the ToyTree object: ntips, treenode (the root), idx_dict[n].children,
\* len(idx_dict[n]) (the number of leaves below n) and the node heights
MakeTree(p, nt) ==
    [ntips    |-> nt,
     nnodes   |-> 2 * nt - 1,
     treenode |-> 2 * nt - 2,
     parent   |-> p,
     children |-> [n \in 0 .. 2 * nt - 2 |-> ChildSeq(p, nt, n)],
     leaves   |-> [n \in 0 .. 2 * nt - 2 |-> TipsBelow(p, nt, n)],
     height   |-> [n \in 0 .. 2 * nt - 2 |-> Height(p, nt, n)]]

\* idx_dict[n].dist: the branch above n, once the root height is scaled to
\* 1.0 (mod.node_scale_root_height), in sixtieths
BranchLength(tree, n) ==
    IF n = tree.treenode THEN 0
    ELSE (60 * (tree.height[tree.parent[n]] - tree.height[n]))
            \div tree.height[tree.treenode]

BdTrees(nt) ==
    {MakeTree(p, nt) :
        p \in {q \in [0 .. 2 * nt - 3 -> nt .. 2 * nt - 2] : ToytreeOrder(q, nt)}}

NoTree == MakeTree(<<>>, 0)

(***************************************************************************)
(* numpy generators.  A generator is its state; a draw reads the state and *)
(* steps it.  default_rng(seed) and the process-global numpy.random are    *)
(* two generators of this kind.                                            *)
(***************************************************************************)
DefaultRng(seed) == (seed * 7 + 1) % 16
RngStep(s) == (s * 5 + 3) % 16

RECURSIVE RngAdvance(_, _)
RngAdvance(s, n) == IF n = 0 THEN s ELSE RngAdvance(RngStep(s), n - 1)

\* one standard normal deviate, in whole standard deviations
StdNormal(s) == ((s \div 4) % 3) - 1
\* one uniform deviate, in percent
Uniform(s) == (s * 37) % 100

\* n successive deviates from state s
Normals(s, n) == [i \in 1 .. n |-> StdNormal(RngAdvance(s, i - 1))]
Uniforms(s, n) == [i \in 1 .. n |-> Uniform(RngAdvance(s, i - 1))]

(***************************************************************************)
(* regression.py: Models and MODEL_DICT                                    *)
(***************************************************************************)
\* class Models(Enum): the member names (each member's value is its name)
Models == {"linear", "exponential", "quadratic", "logarithmic", "asymptotic"}

\* MODEL_DICT: str key -> regression function
MODEL_DICT ==
    [linear          |-> "linea_f",
     exponential     |-> "expon_f",
     quadratic       |-> "quadr_f",
     logarithmic     |-> "logar_f",
     asymptotic_func |-> "asymp_f"]

\* A model argument is a str or a Models member.  Models is a plain Enum, so
\* a member neither equals nor hashes as its str value: only str keys hit.
ModelDictHas(model) == model.kind = "str" /\ model.name \in DOMAIN MODEL_DICT

\* the model arguments tried: every enumerated name as str and as member,
\* the dict's own key for asymp_f, and a name outside the enumeration
ModelArgs ==
    {[kind |-> "str", name |-> n] : n \in Models \cup {"asymptotic_func", "cubic"}}
    \cup {[kind |-> "Models", name |-> n] : n \in Models}

(***************************************************************************)
(* The instance                                                            *)
(***************************************************************************)
EmptyFrame == [x \in {} |-> <<>>]

\* what the last sample_observations call gave its caller: the argument,
\* "return" with the table or "raise" with the error, whether the returned
\* object is self.ridata itself, and whether the caller has written to it
NoReturn ==
    [kind |-> "none", nsamples |-> <<>>, table |-> EmptyFrame, err |-> "",
     shared |-> FALSE, edited |-> FALSE]

\* RandomTree.__init__, lines 185-191: the arguments stored, nothing built.
\* bd is the tree toytree.rtree.bdtree(ntips, seed=666) returns.
NewRandomTree(bd, nclades, model, seed) ==
    [pc          |-> "get_bd_tree",
     bd          |-> bd,
     ntips       |-> bd.ntips,
     nclades     |-> nclades,
     model       |-> model,
     seed        |-> seed,
     tree        |-> NoTree,
     clade_idxs  |-> <<>>,
     k           |-> 0,
     rng         |-> 0,
     function    |-> "",
     ridata      |-> EmptyFrame,
     group_sizes |-> <<>>,
     groups      |-> <<>>,
     params      |-> [x \in {} |-> <<>>],
     spdata      |-> EmptyFrame,
     err         |-> "",
     failed_at   |-> "",
     ncalls      |-> 0,
     ret         |-> NoReturn]

\* an exception leaves __init__: the instance is never returned
Raise(self, err) ==
    [self EXCEPT !.pc = "failed", !.err = err, !.failed_at = self.pc]

\* RandomTree.get_bd_tree
GetBdTree(self) ==
    [self EXCEPT !.tree = self.bd, !.pc = "get_clade_idxs"]

(***************************************************************************)
(* RandomTree.get_clade_idxs, one loop iteration per step                  *)
(***************************************************************************)
NChildren(tree, x) == Len(tree.children[x])

\* sorted(clade_idxs, key=number of children)[0]: sorted() is stable, so
\* this is the first anchor of the list among those with the fewest children
FewestChildren(tree, clade_idxs) ==
    LET i == CHOOSE a \in 1 .. Len(clade_idxs) :
                /\ \A b \in 1 .. Len(clade_idxs) :
                      NChildren(tree, clade_idxs[a]) <= NChildren(tree, clade_idxs[b])
                /\ \A b \in 1 .. a - 1 :
                      NChildren(tree, clade_idxs[b]) > NChildren(tree, clade_idxs[a])
    IN  clade_idxs[i]

\* list.remove(x): drops the first occurrence
ListRemove(s, x) ==
    LET i == CHOOSE a \in 1 .. Len(s) : s[a] = x /\ \A b \in 1 .. a - 1 : s[b] # x
    IN  SubSeq(s, 1, i - 1) \o SubSeq(s, i + 1, Len(s))

\* lines 213-215: the list starts as the root; range(2, nclades + 1)
GetCladeIdxsEnter(self) ==
    [self EXCEPT !.clade_idxs = <<self.tree.treenode>>,
                 !.k = 2,
                 !.pc = IF 2 <= self.nclades THEN "expand" ELSE "base_init"]

\* lines 216-224: one iteration; sidxs[0] on an empty list is an IndexError
ExpandAnchor(self) ==
    IF self.clade_idxs = <<>> THEN Raise(self, "IndexError")
    ELSE LET nidx == FewestChildren(self.tree, self.clade_idxs)
         IN  [self EXCEPT
                !.clade_idxs = ListRemove(self.clade_idxs, nidx)
                                  \o self.tree.children[nidx],
                !.k = self.k + 1,
                !.pc = IF self.k + 1 <= self.nclades THEN "expand" ELSE "base_init"]

(***************************************************************************)
(* Floats that may be non-finite (numpy / pandas arithmetic)               *)
(***************************************************************************)
Fin(v) == <<"fin", v>>
NaN == <<"nan", 0>>
PInf == <<"pinf", 0>>
NInf == <<"ninf", 0>>
IsFin(x) == x[1] = "fin"
Neg(x) ==
    CASE x[1] = "fin" -> Fin(0 - x[2])
      [] x[1] = "pinf" -> NInf
      [] x[1] = "ninf" -> PInf
      [] OTHER -> NaN

FAdd(a, b) ==
    CASE a[1] = "nan" \/ b[1] = "nan" -> NaN
      [] IsFin(a) /\ IsFin(b) -> Fin(a[2] + b[2])
      [] IsFin(a) -> b
      [] IsFin(b) -> a
      [] a = b -> a
      [] OTHER -> NaN

FSub(a, b) == FAdd(a, Neg(b))

\* a finite number v times x
FScale(v, x) ==
    CASE x[1] = "nan" -> NaN
      [] IsFin(x) -> Fin(v * x[2])
      [] v = 0 -> NaN
      [] v > 0 -> x
      [] OTHER -> Neg(x)

\* a / b with b >= 0 or not a number (a standard deviation), one decimal kept
FDiv(a, b) ==
    CASE a[1] = "nan" \/ b[1] = "nan" -> NaN
      [] IsFin(a) /\ IsFin(b) /\ b[2] # 0 -> Fin((a[2] * 10) \div b[2])
      [] IsFin(a) /\ IsFin(b) /\ a[2] > 0 -> PInf
      [] IsFin(a) /\ IsFin(b) /\ a[2] < 0 -> NInf
      [] IsFin(a) /\ IsFin(b) -> NaN
      [] IsFin(b) -> a
      [] IsFin(a) -> Fin(0)
      [] OTHER -> NaN

\* the integer square root of n, by bisection of lo .. hi
RECURSIVE IsqrtIn(_, _, _)
IsqrtIn(n, lo, hi) ==
    IF lo >= hi THEN lo
    ELSE LET mid == (lo + hi + 1) \div 2
         IN  IF mid * mid <= n THEN IsqrtIn(n, mid, hi) ELSE IsqrtIn(n, lo, mid - 1)
Isqrt(n) == IsqrtIn(n, 0, 4000)

\* the entries of s that are numbers (pandas reductions skip NaN)
RECURSIVE DropNaN(_)
DropNaN(s) ==
    IF s = <<>> THEN <<>>
    ELSE IF Head(s)[1] = "nan" THEN DropNaN(Tail(s))
    ELSE <<Head(s)>> \o DropNaN(Tail(s))

RECURSIVE FSum(_)
FSum(s) == IF s = <<>> THEN Fin(0) ELSE FAdd(Head(s), FSum(Tail(s)))

\* Series.mean()
SeriesMean(s) ==
    LET v == DropNaN(s)
        t == FSum(v)
    IN  IF v = <<>> THEN NaN
        ELSE IF IsFin(t) THEN Fin(t[2] \div Len(v))
        ELSE t

\* Series.std(): the sample standard deviation (ddof=1).  Deviations are
\* squared in units of q so that the squares stay in range.
SeriesStd(s) ==
    LET v == DropNaN(s)
        n == Len(v)
        m == SeriesMean(s)[2]
        dev == [i \in 1 .. n |-> IF v[i][2] >= m THEN v[i][2] - m ELSE m - v[i][2]]
        q == 1 + (MaxOf(Range(dev)) \div 1000)
        sq == [i \in 1 .. n |-> (dev[i] \div q) * (dev[i] \div q)]
    IN  IF n < 2 \/ \E i \in 1 .. n : ~IsFin(v[i]) THEN NaN
        ELSE Fin(q * Isqrt(SeqSum(sq) \div (n - 1)))

\* numpy.exp on tenths, by whole units of the argument (e ~ 2.7)
RECURSIVE Exp(_)
Exp(x) ==
    IF x >= 10 THEN (Exp(x - 10) * 27) \div 10
    ELSE IF x < 0 THEN (Exp(x + 10) * 10) \div 27
    ELSE 10

\* ln(d / 60) in tenths for 0 < d: ln 1 = 0, ln 1/2 = -0.7, linear between
RECURSIVE Ln(_)
Ln(d) ==
    IF d >= 60 THEN 0
    ELSE IF 2 * d > 60 THEN 0 - (((60 - d) * 7) \div 30)
    ELSE Ln(2 * d) - 7

\* numpy.log of a distance: log(0) is -inf (a warning, no exception)
Log(d) == IF d = 0 THEN NInf ELSE IF d < 0 THEN NaN ELSE Fin(Ln(d))

\* velocity (hundredths) times distance (sixtieths), in tenths
VelDist(velocity, distance) == (velocity * distance) \div 600

(***************************************************************************)
(* regression.py: the regression functions, on one row                     *)
(***************************************************************************)
linea_f(velocity, distance, intercept) ==
    Fin(intercept + VelDist(velocity, distance))

expon_f(velocity, distance, intercept) ==
    Fin(intercept + Exp(VelDist(velocity, distance)))

quadr_f(velocity, distance, intercept) ==
    Fin((intercept * distance) \div 60 + (velocity * distance * distance) \div 36000)

\* intercept 1e-9 is below the fixed point's resolution: it adds 0 tenths
logar_f(velocity, distance, intercept) ==
    FAdd(Fin(intercept), FDiv(FScale(velocity, Log(distance)), Fin(1000)))

asymp_f(velocity, distance, intercept) ==
    Fin(10 - Exp(0 - VelDist(velocity, distance)))

\* calling self.function with the defaults of its intercept
Apply(function, velocity, distance) ==
    CASE function = "linea_f" -> linea_f(velocity, distance, 0)
      [] function = "expon_f" -> expon_f(velocity, distance, 0)
      [] function = "quadr_f" -> quadr_f(velocity, distance, 0)
      [] function = "logar_f" -> logar_f(velocity, distance, 0)
      [] function = "asymp_f" -> asymp_f(velocity, distance, 0)

\* scipy.special.expit on tenths, in percent
Expit(x) ==
    CASE x[1] = "nan" -> NaN
      [] x[1] = "pinf" -> Fin(100)
      [] x[1] = "ninf" -> Fin(0)
      [] x[2] >= 370 -> Fin(100)
      [] x[2] >= 40 -> Fin(99)
      [] x[2] >= 20 -> Fin(90)
      [] x[2] >= 5 -> Fin(70)
      [] x[2] >= -4 -> Fin(50)
      [] x[2] >= -19 -> Fin(30)
      [] x[2] >= -39 -> Fin(10)
      [] x[2] >= -7450 -> Fin(1)
      [] OTHER -> Fin(0)

(***************************************************************************)
(* generative.py: get_dist and the tree it reads                           *)
(***************************************************************************)
\* n and its ancestors up to the root
RECURSIVE Lineage(_, _)
Lineage(tree, n) ==
    IF n = tree.treenode THEN {n} ELSE {n} \cup Lineage(tree, tree.parent[n])

\* the branches from n up to its ancestor a, summed
RECURSIVE PathUp(_, _, _)
PathUp(tree, n, a) ==
    IF n = a THEN 0 ELSE BranchLength(tree, n) + PathUp(tree, tree.parent[n], a)

\* TreeNode.get_distance: the branch lengths along the path between two nodes
get_dist(tree, idx0, idx1) ==
    LET mrca == MinOf(Lineage(tree, idx0) \cap Lineage(tree, idx1))
    IN  PathUp(tree, idx0, mrca) + PathUp(tree, idx1, mrca)

(***************************************************************************)
(* generative.py: GenerativeBase.__init__ and the methods it calls         *)
(***************************************************************************)
NRows(frame) == IF DOMAIN frame = {} THEN 0 ELSE Len(frame.sidx0)

\* lines 27-39: the generator, the inputs, the function, the empty attrs
BaseInit(self) ==
    IF ~ModelDictHas(self.model)
    THEN Raise([self EXCEPT !.rng = DefaultRng(self.seed)], "KeyError")
    ELSE [self EXCEPT !.rng = DefaultRng(self.seed),
                      !.function = MODEL_DICT[self.model.name],
                      !.pc = "get_groups"]

\* group i (from 0) is repeated len(idx_dict[clade_idxs[i]]) times, the
\* groups in list order; numpy.concatenate of no arrays is a ValueError
GetGroups(self) ==
    LET sizes == [i \in 1 .. Len(self.clade_idxs) |->
                    Cardinality(self.tree.leaves[self.clade_idxs[i]])]
        reps == [i \in 1 .. Len(sizes) |-> [t \in 1 .. sizes[i] |-> i - 1]]
    IN  IF self.clade_idxs = <<>> THEN Raise(self, "ValueError")
        ELSE [self EXCEPT !.group_sizes = sizes,
                          !.groups = Concat(reps),
                          !.pc = "get_crosses"]

\* itertools.combinations(range(n), 2), in its (lexicographic) order
RECURSIVE Combinations(_, _)
Combinations(i, n) ==
    IF i >= n - 1 THEN <<>>
    ELSE [j \in 1 .. n - 1 - i |-> <<i, i + j>>] \o Combinations(i + 1, n)

\* GetCrosses keeping the whole distance get_dist returns
GetCrossesWholeDist(self) ==
    LET pairs == Combinations(0, self.tree.ntips)
    IN  IF pairs = <<>> THEN Raise(self, "ValueError")
        ELSE [self EXCEPT
                !.ridata =
                    [sidx0 |-> [r \in 1 .. Len(pairs) |-> pairs[r][1]],
                     sidx1 |-> [r \in 1 .. Len(pairs) |-> pairs[r][2]],
                     dist  |-> [r \in 1 .. Len(pairs) |->
                        get_dist(self.tree, pairs[r][1], pairs[r][2])]],
                !.pc = "get_true_param_dists"]

\* zip(*[]) unpacked into two names is a ValueError
GetCrosses(self) ==
    LET pairs == Combinations(0, self.tree.ntips)
    IN  IF pairs = <<>> THEN Raise(self, "ValueError")
        ELSE [self EXCEPT
                !.ridata =
                    [sidx0 |-> [r \in 1 .. Len(pairs) |-> pairs[r][1]],
                     sidx1 |-> [r \in 1 .. Len(pairs) |-> pairs[r][2]],
                     dist  |-> [r \in 1 .. Len(pairs) |->
                        get_dist(self.tree, pairs[r][1], pairs[r][2]) \div 2]],
                !.pc = "get_true_param_dists"]

\* numpy.linspace(start, stop, num)
Linspace(start, stop, num) ==
    [i \in 1 .. num |->
        IF num = 1 THEN start ELSE start + ((i - 1) * (stop - start)) \div (num - 1)]

\* get_true_param_dists(random=False), as __init__ calls it
GetTrueParamDists(self) ==
    [self EXCEPT
        !.params = [beta      |-> 1000,
                    psi_means |-> Linspace(-50, 50, Len(self.clade_idxs)),
                    psi_stds  |-> Linspace(5, 25, Len(self.clade_idxs))],
        !.pc = "get_species_data"]

\* one normal deviate per entry of groups, from self.rng
GetSpeciesData(self) ==
    LET n == Len(self.groups)
        z == Normals(self.rng, n)
    IN  [self EXCEPT
            !.spdata =
                [gidx |-> self.groups,
                 psi  |-> [t \in 1 .. n |->
                    self.params.psi_means[self.groups[t] + 1]
                      + self.params.psi_stds[self.groups[t] + 1] * z[t]]],
            !.rng = RngAdvance(self.rng, n),
            !.pc = "get_velocities"]

\* RowBefore with the second sort key forgotten: by=['sidx0'] alone
RowBeforeBySidx0(frame, a, b) == frame.sidx0[a] < frame.sidx0[b]

\* row a sorts before row b by (sidx0, sidx1)
RowBefore(frame, a, b) ==
    \/ frame.sidx0[a] < frame.sidx0[b]
    \/ frame.sidx0[a] = frame.sidx0[b] /\ frame.sidx1[a] < frame.sidx1[b]

\* sort_values(by=['sidx0', 'sidx1']): the row order, as positions of frame
RECURSIVE SortedOrder(_, _)
SortedOrder(frame, left) ==
    IF left = {} THEN <<>>
    ELSE LET first == CHOOSE a \in left : \A b \in left \ {a} :
                        RowBefore(frame, a, b)
                        \/ (~RowBefore(frame, b, a) /\ a < b)
         IN  <<first>> \o SortedOrder(frame, left \ {first})

\* the rows of frame at the positions order, renumbered from 1
TakeRows(frame, order) ==
    [c \in DOMAIN frame |-> [r \in 1 .. Len(order) |-> frame[c][order[r]]]]

\* the self-pairs appended, the table sorted, distnorm, then joint_velo.
\* spdata['psi'][sidx] is a lookup by label: a tip with no row in spdata is
\* a KeyError.
GetVelocities(self) ==
    LET nt == self.tree.ntips
        nulls == [sidx0 |-> [t \in 1 .. nt |-> t - 1],
                  sidx1 |-> [t \in 1 .. nt |-> t - 1],
                  dist  |-> [t \in 1 .. nt |-> 0]]
        both == [c \in DOMAIN self.ridata |-> self.ridata[c] \o nulls[c]]
        sorted == TakeRows(both, SortedOrder(both, 1 .. NRows(both)))
        n == NRows(sorted)
        total == SeqSum(sorted.dist)
        distnorm == [r \in 1 .. n |->
                        ((sorted.dist[r] * n - total) * 100) \div total]
        z == Normals(self.rng, n)
        joint == [r \in 1 .. n |->
                    self.params.beta
                      + self.spdata.psi[sorted.sidx0[r] + 1]
                      + self.spdata.psi[sorted.sidx1[r] + 1]
                      + 100 * z[r]]
        normed == sorted @@ [distnorm |-> distnorm]
    IN  IF Len(self.spdata.psi) < nt
        THEN Raise([self EXCEPT !.ridata = normed], "KeyError")
        ELSE [self EXCEPT !.ridata = normed @@ [joint_velo |-> joint],
                          !.rng = RngAdvance(self.rng, n),
                          !.pc = "get_logit"]

\* GetLogit drawing the outcomes too, as part of construction
GetLogitDrawingRI(self) ==
    LET n == NRows(self.ridata)
        values == [r \in 1 .. n |->
                     Apply(self.function, self.ridata.joint_velo[r], self.ridata.dist[r])]
        shift == FDiv(SeriesMean(values), SeriesStd(values))
    IN  [self EXCEPT
            !.ridata = self.ridata @@
                [expit |-> [r \in 1 .. n |-> Expit(FSub(values[r], shift))],
                 RI    |-> [r \in 1 .. n |-> 0]],
            !.pc = "built"]

\* values = function(joint_velo, dist); values - values.mean() / values.std()
GetLogit(self) ==
    LET n == NRows(self.ridata)
        values == [r \in 1 .. n |->
                     Apply(self.function, self.ridata.joint_velo[r], self.ridata.dist[r])]
        shift == FDiv(SeriesMean(values), SeriesStd(values))
    IN  [self EXCEPT
            !.ridata = self.ridata @@
                [expit |-> [r \in 1 .. n |-> Expit(FSub(values[r], shift))]],
            !.pc = "built"]

(***************************************************************************)
(* generative.py: GenerativeBase.sample_observations                       *)
(* nsamples is <<>> for None and <<n>> for the integer n.  The result is   *)
(* the instance and the process-global generator after the call.           *)
(***************************************************************************)
\* numpy.random.binomial(1, p): one uniform deviate per row from the global
\* generator; a p that is not a number is a ValueError before any draw
Binomial(np, p) ==
    LET u == Uniforms(np, Len(p))
    IN  [r \in 1 .. Len(p) |-> IF u[r] < p[r][2] THEN 1 ELSE 0]

\* DataFrame.sample(n): no random_state is passed, so pandas draws from the
\* global generator: n distinct positions of the frame (replace=False)
SamplePositions(np, len, n) ==
    [i \in 1 .. n |-> ((np + i - 1) % len) + 1]

\* Copy with .copy() forgotten: the caller is handed the object itself
NoCopy(frame, nsamples) ==
    [kind |-> "return", nsamples |-> nsamples, table |-> frame, err |-> "",
     shared |-> TRUE, edited |-> FALSE]

\* DataFrame.copy(): a new object holding the same values
Copy(frame, nsamples) ==
    [kind |-> "return", nsamples |-> nsamples, table |-> frame, err |-> "",
     shared |-> FALSE, edited |-> FALSE]

Raised(err, nsamples) ==
    [kind |-> "raise", nsamples |-> nsamples, table |-> EmptyFrame, err |-> err,
     shared |-> FALSE, edited |-> FALSE]

SampleObservations(self, np, nsamples) ==
    LET n == NRows(self.ridata)
        p == self.ridata.expit
        drawn == [RI |-> Binomial(np, p)] @@ self.ridata
        np1 == RngAdvance(np, n)
        called == [self EXCEPT !.ncalls = self.ncalls + 1]
    IN  IF \E r \in 1 .. n : ~IsFin(p[r])
        THEN [self |-> [called EXCEPT !.ret = Raised("ValueError", nsamples)],
              np   |-> np]
        ELSE IF nsamples # <<>> /\ nsamples[1] # 0
        THEN IF nsamples[1] > n \/ nsamples[1] < 0
             THEN [self |-> [called EXCEPT !.ridata = drawn,
                                           !.ret = Raised("ValueError", nsamples)],
                   np   |-> np1]
             ELSE [self |-> [called EXCEPT
                                !.ridata = drawn,
                                !.ret = Copy(TakeRows(drawn,
                                    SamplePositions(np1, n, nsamples[1])), nsamples)],
                   np   |-> RngStep(np1)]
        ELSE [self |-> [called EXCEPT !.ridata = drawn,
                                      !.ret = Copy(drawn, nsamples)],
              np   |-> np1]

\* the caller writes into the table it was handed (here: flips RI of its
\* first row); the write reaches self.ridata only if the two are one object
EditReturned(self) ==
    LET flipped == [self.ret.table EXCEPT !.RI[1] = 1 - self.ret.table.RI[1]]
    IN  [self EXCEPT !.ret.table = flipped,
                     !.ret.edited = TRUE,
                     !.ridata = IF self.ret.shared THEN flipped ELSE self.ridata]

(***************************************************************************)
(* The state machine                                                       *)
(***************************************************************************)
NoRun == [NewRandomTree(NoTree, 0, [kind |-> "str", name |-> ""], 0)
            EXCEPT !.pc = "none"]

Inputs ==
    {NewRandomTree(bd, nclades, model, seed) :
        bd \in UNION {BdTrees(nt) : nt \in 1 .. MaxTips},
        nclades \in 1 .. MaxClades,
        model \in ModelArgs,
        seed \in 0 .. MaxSeed}

Init ==
    /\ run \in Inputs
    /\ twin = NoRun
    /\ np_random \in 0 .. MaxNp
    /\ np_start = np_random

\* the nsamples arguments tried on a table of n rows: None, 0, the smallest
\* samples, the whole table and one row too many
SampleArgs(n) == {<<>>} \cup {<<k>> : k \in {0, 1, 2, n, n + 1}}

DoGetBdTree ==
    /\ run.pc = "get_bd_tree"
    /\ run' = GetBdTree(run)
    /\ UNCHANGED <<twin, np_random, np_start>>

DoGetCladeIdxs ==
    /\ run.pc = "get_clade_idxs"
    /\ run' = GetCladeIdxsEnter(run)
    /\ UNCHANGED <<twin, np_random, np_start>>

DoExpandAnchor ==
    /\ run.pc = "expand"
    /\ run' = ExpandAnchor(run)
    /\ UNCHANGED <<twin, np_random, np_start>>

DoBaseInit ==
    /\ run.pc = "base_init"
    /\ run' = BaseInit(run)
    /\ UNCHANGED <<twin, np_random, np_start>>

DoGetGroups ==
    /\ run.pc = "get_groups"
    /\ run' = GetGroups(run)
    /\ UNCHANGED <<twin, np_random, np_start>>

DoGetCrosses ==
    /\ run.pc = "get_crosses"
    /\ run' = GetCrosses(run)
    /\ UNCHANGED <<twin, np_random, np_start>>

DoGetTrueParamDists ==
    /\ run.pc = "get_true_param_dists"
    /\ run' = GetTrueParamDists(run)
    /\ UNCHANGED <<twin, np_random, np_start>>

DoGetSpeciesData ==
    /\ run.pc = "get_species_data"
    /\ run' = GetSpeciesData(run)
    /\ UNCHANGED <<twin, np_random, np_start>>

DoGetVelocities ==
    /\ run.pc = "get_velocities"
    /\ run' = GetVelocities(run)
    /\ UNCHANGED <<twin, np_random, np_start>>

DoGetLogit ==
    /\ run.pc = "get_logit"
    /\ run' = GetLogit(run)
    /\ UNCHANGED <<twin, np_random, np_start>>

\* a caller's sample_observations(nsamples) on the built instance; with a
\* twin, the twin is given each call before the next one is made
DoSampleObservations ==
    /\ run.pc = "built"
    /\ run.ncalls < MaxCalls
    /\ twin.pc = "none" \/ twin.ncalls = run.ncalls
    /\ \E nsamples \in SampleArgs(NRows(run.ridata)) :
         LET out == SampleObservations(run, np_random, nsamples)
         IN  run' = out.self /\ np_random' = out.np
    /\ UNCHANGED <<twin, np_start>>

DoEditReturned ==
    /\ run.ret.kind = "return"
    /\ ~run.ret.edited
    /\ run' = EditReturned(run)
    /\ UNCHANGED <<twin, np_random, np_start>>

Next ==
    \/ DoGetBdTree
    \/ DoGetCladeIdxs
    \/ DoExpandAnchor
    \/ DoBaseInit
    \/ DoGetGroups
    \/ DoGetCrosses
    \/ DoGetTrueParamDists
    \/ DoGetSpeciesData
    \/ DoGetVelocities
    \/ DoGetLogit
    \/ DoSampleObservations
    \/ DoEditReturned

Spec == Init /\ [][Next]_vars

(***************************************************************************)
(* Two instances built from the same arguments in one process              *)
(***************************************************************************)
\* RandomTree.__init__ as one call: every stage in order, to the built
\* instance or to the exception that leaves the constructor
ConstructorStep(self) ==
    CASE self.pc = "get_bd_tree" -> GetBdTree(self)
      [] self.pc = "get_clade_idxs" -> GetCladeIdxsEnter(self)
      [] self.pc = "expand" -> ExpandAnchor(self)
      [] self.pc = "base_init" -> BaseInit(self)
      [] self.pc = "get_groups" -> GetGroups(self)
      [] self.pc = "get_crosses" -> GetCrosses(self)
      [] self.pc = "get_true_param_dists" -> GetTrueParamDists(self)
      [] self.pc = "get_species_data" -> GetSpeciesData(self)
      [] self.pc = "get_velocities" -> GetVelocities(self)
      [] self.pc = "get_logit" -> GetLogit(self)
      [] OTHER -> self

RECURSIVE Construct(_)
Construct(self) ==
    IF self.pc \in {"built", "failed", "none"} THEN self
    ELSE Construct(ConstructorStep(self))

InitTwin ==
    /\ run \in {i \in Inputs : i.ntips <= TwinTips}
    /\ twin = run
    /\ np_random \in 0 .. MaxNp
    /\ np_start = np_random

TwinConstruct ==
    /\ twin.pc = "get_bd_tree"
    /\ twin' = Construct(twin)
    /\ UNCHANGED <<run, np_random, np_start>>

\* the twin is driven by the calls the first instance was given
TwinSampleObservations ==
    /\ twin.pc = "built"
    /\ twin.ncalls < run.ncalls
    /\ LET out == SampleObservations(twin, np_random, run.ret.nsamples)
       IN  twin' = out.self /\ np_random' = out.np
    /\ UNCHANGED <<run, np_start>>

NextTwin ==
    \/ Next
    \/ TwinConstruct
    \/ TwinSampleObservations

SpecTwin == InitTwin /\ [][NextTwin]_vars

(***************************************************************************)
(* Properties                                                              *)
(***************************************************************************)
\* get_clade_idxs has returned
PartitionDone(self) ==
    /\ self.pc \notin {"none", "get_bd_tree", "get_clade_idxs", "expand"}
    /\ self.failed_at # "expand"

InternalNodes(tree) == {n \in DOMAIN tree.children : tree.children[n] # <<>>}

\* the anchors (positions of clade_idxs) whose descendant tips include t
AnchorsOver(self, t) ==
    {i \in 1 .. Len(self.clade_idxs) : t \in self.tree.leaves[self.clade_idxs[i]]}

\* C1: for 1 <= nclades <= number of internal nodes, the anchor list that
\* get_clade_idxs leaves covers every tip exactly once: each tip 0..ntips-1
\* lies under exactly one anchor (no gaps, no overlaps).
C1_CoversEveryTipOnce ==
    (/\ PartitionDone(run)
     /\ 1 <= run.nclades
     /\ run.nclades <= Cardinality(InternalNodes(run.tree)))
    => \A t \in 0 .. run.tree.ntips - 1 : Cardinality(AnchorsOver(run, t)) = 1

\* C2: when get_clade_idxs completes for an nclades the tree can satisfy,
\* exactly nclades anchors remain, and for nclades = 1 the list is the root
\* alone.
C2_ExactlyNcladesAnchors ==
    (/\ PartitionDone(run)
     /\ 1 <= run.nclades
     /\ run.nclades <= Cardinality(InternalNodes(run.tree)))
    => /\ Len(run.clade_idxs) = run.nclades
       /\ run.nclades = 1 => run.clade_idxs = <<run.tree.treenode>>

\* get_species_data has stored spdata
SpeciesDone(self) == DOMAIN self.spdata # {}

\* C3: once spdata is built from an anchor list the partitioner produced,
\* every tip has exactly one clade id, the ids used are contiguous from 0,
\* and spdata.gidx[t] is the position in clade_idxs of the anchor whose
\* descendant tips include t.
C3_GidxIsAnchorPosition ==
    SpeciesDone(run)
    => /\ Len(run.spdata.gidx) = run.tree.ntips
       /\ Range(run.spdata.gidx) = 0 .. MaxOf(Range(run.spdata.gidx))
       /\ \A t \in 0 .. run.tree.ntips - 1 :
             AnchorsOver(run, t) = {run.spdata.gidx[t + 1] + 1}

\* the (sidx0, sidx1) pairs of a table, row by row
RowPairs(frame) == [r \in 1 .. NRows(frame) |-> <<frame.sidx0[r], frame.sidx1[r]>>]

\* C4: on a built instance of a tree with ntips >= 2, before and after any
\* sample_observations calls, the full table holds exactly one row per
\* unordered tip pair i < j and one self-pair row per tip, that is
\* ntips*(ntips-1)/2 + ntips rows, in ascending (sidx0, sidx1) order, and
\* every column has that many entries.
C4_OneRowPerPair ==
    (run.pc = "built" /\ run.tree.ntips >= 2)
    => LET nt == run.tree.ntips
           pairs == RowPairs(run.ridata)
       IN  /\ Len(pairs) = (nt * (nt - 1)) \div 2 + nt
           /\ Range(pairs) = {<<i, j>> \in (0 .. nt - 1) \X (0 .. nt - 1) : i <= j}
           /\ \A r \in 1 .. Len(pairs) - 1 : RowBefore(run.ridata, r, r + 1)
           /\ \A c \in DOMAIN run.ridata : Len(run.ridata[c]) = Len(pairs)

\* C4 witness: a built table of a 4-tip tree after two sample_observations
\* calls
C4_Witness ==
    /\ run.pc = "built"
    /\ run.tree.ntips = 4
    /\ run.ncalls = 2
    /\ "RI" \in DOMAIN run.ridata

\* GenerativeBase.__init__ has looked the model up
ModelLookedUp(self) ==
    /\ PartitionDone(self)
    /\ self.pc # "base_init"

\* the regression function each enumerated name stands for
FunctionNamed(name) ==
    CASE name = "linear" -> "linea_f"
      [] name = "exponential" -> "expon_f"
      [] name = "quadratic" -> "quadr_f"
      [] name = "logarithmic" -> "logar_f"
      [] name = "asymptotic" -> "asymp_f"

\* C5: model selection is by name from the closed enumeration Models:
\* constructing with one of the five names (as str or as Models member)
\* selects the regression function of that name, and any other name fails
\* at the lookup (UnknownModel; in the code a KeyError).
C5_SelectionByName ==
    ModelLookedUp(run)
    => IF run.model.name \in Models
       THEN /\ run.failed_at # "base_init"
            /\ run.function = FunctionNamed(run.model.name)
       ELSE /\ run.pc = "failed"
            /\ run.failed_at = "base_init"
            /\ run.err = "KeyError"

\* C6: every random draw of a run consumes only the run's own generator
\* self.rng: the process-global generator is in the state it started in
\* after construction and after every sample_observations call.
C6_GlobalGeneratorUntouched == np_random = np_start

\* both instances have left their constructors and were given the same calls
SameHistory ==
    /\ run.pc \in {"built", "failed"}
    /\ twin.pc \in {"built", "failed"}
    /\ twin.ncalls = run.ncalls
    /\ ~run.ret.edited

\* C7: two instances built from the same tree, clade configuration, model
\* and seed and given the same calls hold identical params, species traits
\* and observation tables (joint_velo, expit, RI) and were returned
\* identical tables, whatever the state of the process-global generator.
C7_SameSeedSameOutputs ==
    SameHistory
    => /\ twin.params = run.params
       /\ twin.spdata = run.spdata
       /\ twin.ridata = run.ridata
       /\ twin.ret = run.ret

\* row r of table a is row q of table b, in every column
SameRow(a, r, b, q) ==
    /\ DOMAIN a = DOMAIN b
    /\ \A c \in DOMAIN a : a[c][r] = b[c][q]

\* C8: sample_observations(nsamples=n) returns exactly n distinct rows of
\* the full table for every 0 < n <= len(table), and fails for every
\* n > len(table) (InvalidSampleSize; in the code a ValueError).
C8_SubsampleSize ==
    (/\ run.pc = "built"
     /\ run.ret.kind # "none"
     /\ ~run.ret.edited
     /\ run.ret.nsamples # <<>>
     /\ run.ret.nsamples[1] > 0)
    => LET n == run.ret.nsamples[1]
           out == run.ret.table
       IN  IF n <= NRows(run.ridata)
           THEN /\ run.ret.kind = "return"
                /\ NRows(out) = n
                /\ \A r \in 1 .. NRows(out) :
                     \E q \in 1 .. NRows(run.ridata) : SameRow(out, r, run.ridata, q)
                /\ \A r, q \in 1 .. NRows(out) :
                     RowPairs(out)[r] = RowPairs(out)[q] => r = q
           ELSE run.ret.kind = "raise"

\* C9 as claimed: once the full table has its RI outcomes, no call of
\* sample_observations (returning or raising) and no write to a returned
\* table changes any row or any column value of the full table, RI included.
C9_SourceTableUnchanged ==
    [][(/\ run.pc = "built"
        /\ "RI" \in DOMAIN run.ridata
        /\ \/ /\ run'.ncalls = run.ncalls + 1
              /\ run'.ret.nsamples # <<>>
              /\ run'.ret.nsamples[1] > 0
           \/ run'.ret.edited /\ ~run.ret.edited)
            => run'.ridata = run.ridata]_vars

\* C9 as amended: a call of sample_observations (returning or raising)
\* leaves the rows and every column of the full table other than RI as they
\* were (RI itself is drawn anew by the call), and a write to the returned
\* table leaves the full table, RI included, unchanged.
C9_OnlyRIRedrawn ==
    [][run.pc = "built"
            => /\ DOMAIN run'.ridata \ {"RI"} = DOMAIN run.ridata \ {"RI"}
               /\ \A c \in DOMAIN run.ridata \ {"RI"} : run'.ridata[c] = run.ridata[c]
               /\ (run'.ret.edited /\ ~run.ret.edited) => run'.ridata = run.ridata]_vars

\* C9 witness: a table with outcomes was sampled again and the table that
\* call returned was written to
C9_Witness ==
    /\ run.pc = "built"
    /\ run.ncalls = 2
    /\ run.ret.kind = "return"
    /\ run.ret.nsamples # <<>>
    /\ run.ret.edited

BaseColumns == {"sidx0", "sidx1", "dist", "distnorm", "joint_velo", "expit"}

RemovedAnchors == Range(run.clade_idxs) \ Range(run'.clade_idxs)

\* C11: get_clade_idxs fails whenever nclades exceeds the number of internal
\* nodes it can expand (it never returns normally from such a call), and an
\* expansion step never removes an anchor with zero children (a tip) from the
\* anchor list.
C11_PartitionRejectsExcess ==
    [][run.pc = "expand" =>
         /\ \A x \in RemovedAnchors : NChildren(run.tree, x) > 0
         /\ run.nclades > Cardinality(InternalNodes(run.tree))
               => run'.pc \in {"expand", "failed"}]_vars

\* C12: constructing on a tree of fewer than 2 tips (one anchor asked for, a
\* model named in the enumeration) ends in an exception raised by
\* get_crosses, the pair enumeration, and never in a built instance.
C12_SmallTreeFailsAtCrosses ==
    (/\ run.bd.ntips < 2
     /\ run.nclades = 1
     /\ run.model.name \in Models
     /\ run.pc \in {"built", "failed"})
    => run.pc = "failed" /\ run.failed_at = "get_crosses"

\* C13: with the logarithmic model get_logit raises nothing and every value
\* of the expit column is a finite number, the self-pair rows (dist = 0)
\* included.
C13_LogarithmicFinite ==
    (/\ run.model.name = "logarithmic"
     /\ run.pc \in {"built", "failed"}
     /\ run.pc = "failed" => run.failed_at = "get_logit")
    => /\ run.pc = "built"
       /\ \A r \in 1 .. NRows(run.ridata) : IsFin(run.ridata.expit[r])

\* the patristic distance of tips i and j in sixtieths of the root height:
\* up from i to the most recent common ancestor and down to j
Patristic(tree, i, j) ==
    LET common == {a \in DOMAIN tree.leaves : {i, j} \subseteq tree.leaves[a]}
        mrca == CHOOSE a \in common :
                    \A b \in common : tree.height[a] <= tree.height[b]
    IN  (60 * (2 * tree.height[mrca] - tree.height[i] - tree.height[j]))
            \div tree.height[tree.treenode]

\* C14 as stated: every non-self row's dist is the patristic distance of its
\* two tips on the tree of root height 1, and every self-pair row's dist is 0.
C14_DistIsPatristic ==
    "dist" \in DOMAIN run.ridata =>
        \A r \in 1 .. NRows(run.ridata) :
            LET i == run.ridata.sidx0[r]
                j == run.ridata.sidx1[r]
            IN  run.ridata.dist[r] = IF i = j THEN 0 ELSE Patristic(run.tree, i, j)

\* C14 amended: every non-self row's dist is half the patristic distance of
\* its two tips on the tree of root height 1 (the height of their most recent
\* common ancestor), and every self-pair row's dist is 0.
C14_DistIsHalfPatristic ==
    "dist" \in DOMAIN run.ridata =>
        \A r \in 1 .. NRows(run.ridata) :
            LET i == run.ridata.sidx0[r]
                j == run.ridata.sidx1[r]
            IN  2 * run.ridata.dist[r] = IF i = j THEN 0 ELSE Patristic(run.tree, i, j)

\* a built table of at least 3 tips with self-pair rows, a pair of sister
\* tips and a pair joined at the root
C14_Witness ==
    /\ run.pc = "built"
    /\ run.tree.ntips >= 3
    /\ \E r \in 1 .. NRows(run.ridata) :
          run.ridata.sidx0[r] = run.ridata.sidx1[r] /\ run.ridata.dist[r] = 0
    /\ \E r, q \in 1 .. NRows(run.ridata) :
          /\ 0 < run.ridata.dist[r]
          /\ run.ridata.dist[r] < run.ridata.dist[q]
          /\ run.ridata.dist[q] = 60

\* C15: the anchor an expansion step removes has the fewest children among
\* the current anchors, and among the anchors that tie on that count it is
\* the one with the smallest node idx, wherever it stands in the list.
C15_TieBreakBySmallestIdx ==
    [][(run.pc = "expand" /\ run'.pc # "failed") =>
         LET fewest == {a \in Range(run.clade_idxs) :
                          \A b \in Range(run.clade_idxs) :
                              NChildren(run.tree, a) <= NChildren(run.tree, b)}
         IN  RemovedAnchors = {MinOf(fewest)}]_vars

====
